---- MODULE Spec2Model ----
(***************************************************************************)
(* Model of desktop/src-tauri/src/main.rs: the State that owns the single  *)
(* RwLock<Option<StateShared>> slot, State::configure, State::api,         *)
(* State::current_config and the tauri command handlers built on them.     *)
(*                                                                         *)
(* configure is an async fn: it is modelled as one process per in-flight   *)
(* call, with one step per lock acquisition, per critical section and per  *)
(* await point.  Commands are modelled the same way.                       *)
(***************************************************************************)
EXTENDS Integers, Sequences, FiniteSets, TLC

\* ---------------------------------------------------------------- bounds
\* calls of config_change the front end makes in a run
MaxCalls == 3
\* torrents added in a run, over all sessions
MaxJobs == 1
\* strings sent on the reload channel in a run
MaxSends == 2
\* calls of config_change in the runs that follow the reload channel
MaxLogCalls == 2

\* ------------------------------------------------------------ parameters
\* tasks that run config_change
Procs == {"p1", "p2"}
\* tasks that run the other commands
Cmds == {"c1"}

\* Option::None of the slot and of the locals that hold a record or a config
None == [ none |-> TRUE ]
\* nobody holds the write guard
NoHolder == "nobody"
NoSession == 0

\* RqbitDesktopConfig values the front end sends; only http_api.disable is
\* read by configure itself, the rest is passed on to the session.
Configs ==
    { [id |-> "A", http_api_disable |-> FALSE],
      [id |-> "B", http_api_disable |-> TRUE] }

\* one session can be constructed per configure call; the longest runs make
\* one call more than MaxCalls
SessionIds == 1 .. (MaxCalls + 1)

VARIABLES
    shared,      \* Option<StateShared>: None or [config, session]
    wlock,       \* holder of the RwLock's write guard, or None
    sessions,    \* librqbit sessions ever constructed, by id
    pc,          \* position of each configure task
    config,      \* configure's argument `config`
    existing,    \* configure's local `existing`
    session,     \* configure's local `session`
    result,      \* what the last configure call of the task returned
    calls,       \* number of configure calls made so far
    overlapped,  \* history: another call was in flight during this call
    later,       \* history: a call was invoked after this call returned
    lastWrite,   \* history: the last write to the slot, and the records
                 \* installed since the last take
    cmd,         \* the command tasks
    filter,      \* the EnvFilter the reload layer applies
    reload_rx,   \* strings sent on the reload channel and not yet received
    reloader,    \* the fmt_filter_reloader task: running or exited
    sent         \* history: every string sent on the reload channel

vars == << shared, wlock, sessions, pc, config, existing, session, result,
           calls, overlapped, later, lastWrite, cmd,
           filter, reload_rx, reloader, sent >>

logVars == << filter, reload_rx, reloader, sent >>

cfgVars == << pc, config, existing, session, result, calls, overlapped, later >>

\* ------------------------------------------------------------- sessions
\* A session that has not been constructed yet.
Unborn ==
    [ state |-> "unborn", config |-> None, http |-> FALSE, stops |-> 0,
      dropped |-> FALSE, jobs |-> << >> ]

Constructed == { s \in SessionIds : sessions[s].state # "unborn" }

\* Session::new_with_opts(...) succeeded: a fresh running session built
\* from config.
NewSession(c) ==
    [ state |-> "running", config |-> c, http |-> FALSE, stops |-> 0,
      dropped |-> FALSE, jobs |-> << >> ]

FreshId == CHOOSE s \in SessionIds :
              /\ sessions[s].state = "unborn"
              /\ \A t \in SessionIds : t < s => sessions[t].state # "unborn"

\* ------------------------------------------------------- init_logging
\* Level names EnvFilter accepts in a directive.
Levels == { "trace", "debug", "info", "warn", "error", "off" }

\* RUST_LOG strings, written as sequences of tokens: words, "," and "=".
RustLogs ==
    { << "debug" >>,
      << "librqbit", "=", "trace", ",", "warn" >>,
      << "info", ",", "tokio", "=", "loud" >> }

\* Result<EnvFilter, ParseError> of EnvFilter::builder().parse
Ok(ds) == [ ok |-> TRUE, filter |-> ds ]
ParseError == [ ok |-> FALSE, filter |-> {} ]

\* a piece that is not a directive
BadDirective == [ target |-> "", level |-> "" ]

\* str.split(','): the pieces between the "," tokens; piece is the one
\* being read.
RECURSIVE Pieces(_, _)
Pieces(str, piece) ==
    IF str = << >> THEN << piece >>
    ELSE IF Head(str) = "," THEN << piece >> \o Pieces(Tail(str), << >>)
    ELSE Pieces(Tail(str), Append(piece, Head(str)))

\* One directive: a bare level sets the default level, a bare target
\* enables everything for it, target=level sets the level of the target;
\* anything else does not parse.
Directive(piece) ==
    IF Len(piece) = 1 /\ piece[1] \in Levels
      THEN [ target |-> "", level |-> piece[1] ]
    ELSE IF Len(piece) = 1 /\ piece[1] # "="
      THEN [ target |-> piece[1], level |-> "trace" ]
    ELSE IF Len(piece) = 3 /\ piece[1] # "=" /\ piece[2] = "="
                           /\ piece[3] \in Levels
      THEN [ target |-> piece[1], level |-> piece[3] ]
    ELSE BadDirective

\* one directive that does not parse fails the whole string: parse
Strict(ds) == IF BadDirective \in ds THEN ParseError ELSE Ok(ds)

\* EnvFilter::builder().parse(str): the set of directives of the non-empty
\* pieces, or the error.
Parse(str) ==
    LET pieces == Pieces(str, << >>)
        ds == { Directive(pieces[i]) :
                  i \in { j \in 1 .. Len(pieces) : pieces[j] # << >> } }
    IN  Strict(ds)

\* EnvFilter::builder().parse("info").unwrap()
DefaultFilter == Parse(<< "info" >>).filter

\* ---------------------------------------------------------------- State
\* StateShared { config: config_clone, api, session }: api wraps the same
\* session, so the record is the pair (config, session).
StateShared(c, s) == [ config |-> c, session |-> s ]

InFlight(p) == pc[p] # "idle"

Idle == [ op |-> "none", arg |-> << >>, handle |-> NoSession, got |-> None,
          pc |-> "idle", res |-> "none" ]

Init ==
    /\ shared = None
    /\ wlock = NoHolder
    /\ sessions = [ s \in SessionIds |-> Unborn ]
    /\ pc = [ p \in Procs |-> "idle" ]
    /\ config = [ p \in Procs |-> None ]
    /\ existing = [ p \in Procs |-> None ]
    /\ session = [ p \in Procs |-> NoSession ]
    /\ result = [ p \in Procs |-> "none" ]
    /\ calls = 0
    /\ overlapped = [ p \in Procs |-> FALSE ]
    /\ later = [ p \in Procs |-> FALSE ]
    /\ lastWrite = [ kind |-> "init", rec |-> None, since |-> {} ]
    /\ cmd = [ c \in Cmds |-> Idle ]
    /\ filter = DefaultFilter
    /\ reload_rx = << >>
    /\ reloader = "running"
    /\ sent = << >>

\* -------------------------------------------------------- State::configure
\* state.configure(config) starts in task p, as one of at most `limit`
\* calls of a run.
Invoked(p, c, limit) ==
    /\ pc[p] = "idle"
    /\ calls < limit
    /\ pc' = [pc EXCEPT ![p] = "take"]
    /\ config' = [config EXCEPT ![p] = c]
    /\ existing' = [existing EXCEPT ![p] = None]
    /\ session' = [session EXCEPT ![p] = NoSession]
    /\ result' = [result EXCEPT ![p] = "pending"]
    /\ calls' = calls + 1
    /\ overlapped' = [ q \in Procs |->
                         IF q = p THEN \E r \in Procs \ {p} : InFlight(r)
                         ELSE overlapped[q] \/ InFlight(q) ]
    /\ later' = [ q \in Procs |->
                    IF q = p THEN FALSE ELSE later[q] \/ ~InFlight(q) ]
    /\ UNCHANGED << shared, wlock, sessions, lastWrite, cmd, logVars >>

\* config_change(config) is invoked: state.configure(config) starts.
config_change(p, c) == Invoked(p, c, MaxCalls)

\* config_change(config) in the runs that make one call more
config_change_more(p, c) == Invoked(p, c, MaxCalls + 1)

\* config_change(config) in the runs that follow the reload channel
config_change_log(p, c) == Invoked(p, c, MaxLogCalls)

\* self.shared.write(): the exclusive guard is granted when nobody holds it.
LockTake(p) ==
    /\ pc[p] = "take"
    /\ wlock = NoHolder
    /\ wlock' = p
    /\ pc' = [pc EXCEPT ![p] = "take_cs"]
    /\ UNCHANGED << shared, sessions, config, existing, session, result,
                    calls, overlapped, later, lastWrite, cmd, logVars >>

TakeLeaves_clone(old) == old

\* what Option::take leaves in the slot
TakeLeaves(old) == None

GuardAfterTake_bound(p) == p

\* the guard of `self.shared.write().take()` is a temporary: it is dropped at
\* the end of the statement, before the first await.
GuardAfterTake(p) == NoHolder

AfterTake_nowait(old) == "construct"

\* if let Some(existing) = existing { existing.session.stop().await; }
AfterTake(old) == IF old = None THEN "construct" ELSE "stop"

\* let existing = self.shared.write().take();
TakeSlot(p) ==
    /\ pc[p] = "take_cs"
    /\ wlock = p
    /\ existing' = [existing EXCEPT ![p] = shared]
    /\ shared' = TakeLeaves(shared)
    /\ wlock' = GuardAfterTake(p)
    /\ lastWrite' = [ kind |-> "take", rec |-> None, since |-> {} ]
    /\ pc' = [pc EXCEPT ![p] = AfterTake(shared)]
    /\ UNCHANGED << sessions, config, session, result, calls, overlapped,
                    later, cmd, logVars >>

\* existing.session.stop() is called: the session starts to wind down.
StopRequest(p) ==
    /\ pc[p] = "stop"
    /\ LET s == existing[p].session IN
         sessions' = [sessions EXCEPT ![s].state = "stopping",
                                      ![s].stops = @ + 1]
    /\ pc' = [pc EXCEPT ![p] = "stopwait"]
    /\ UNCHANGED << shared, wlock, config, existing, session, result, calls,
                    overlapped, later, lastWrite, cmd, logVars >>

\* .await on stop() completes; `existing` goes out of scope and the old
\* StateShared is dropped.
StopComplete(p) ==
    /\ pc[p] = "stopwait"
    /\ LET s == existing[p].session IN
         sessions' = [sessions EXCEPT ![s].state = "stopped",
                                      ![s].dropped = TRUE]
    /\ pc' = [pc EXCEPT ![p] = "construct"]
    /\ UNCHANGED << shared, wlock, config, existing, session, result, calls,
                    overlapped, later, lastWrite, cmd, logVars >>

\* Session::new_with_opts(...).await returned Ok(session);
\* let api = Api::new(session.clone(), None);
ConstructOk(p) ==
    /\ pc[p] = "construct"
    /\ sessions' = [sessions EXCEPT ![FreshId] = NewSession(config[p])]
    /\ session' = [session EXCEPT ![p] = FreshId]
    /\ pc' = [pc EXCEPT ![p] = "http"]
    /\ UNCHANGED << shared, wlock, config, existing, result, calls,
                    overlapped, later, lastWrite, cmd, logVars >>

\* Session::new_with_opts(...).await returned Err: `?` returns the error.
ConstructFail(p) ==
    /\ pc[p] = "construct"
    /\ pc' = [pc EXCEPT ![p] = "idle"]
    /\ result' = [result EXCEPT ![p] = "Err"]
    /\ UNCHANGED << shared, wlock, sessions, config, existing, session, calls,
                    overlapped, later, lastWrite, cmd, logVars >>

HttpApiStarted_always(c) == TRUE

\* if !config.http_api.disable { ... session.spawn("http api", ...) }
HttpApiStarted(c) == ~c.http_api_disable

StartHttpApi(p) ==
    /\ pc[p] = "http"
    /\ sessions' = [sessions EXCEPT ![session[p]].http = HttpApiStarted(config[p])]
    /\ pc' = [pc EXCEPT ![p] = "install"]
    /\ UNCHANGED << shared, wlock, config, existing, session, result, calls,
                    overlapped, later, lastWrite, cmd, logVars >>

\* self.shared.write() of the install statement
LockInstall(p) ==
    /\ pc[p] = "install"
    /\ wlock = NoHolder
    /\ wlock' = p
    /\ pc' = [pc EXCEPT ![p] = "install_cs"]
    /\ UNCHANGED << shared, sessions, config, existing, session, result,
                    calls, overlapped, later, lastWrite, cmd, logVars >>

InstalledRecord_stale(p) ==
    StateShared(IF existing[p] = None THEN config[p] ELSE existing[p].config,
                session[p])

InstalledRecord_partial(p) == StateShared(config[p], NoSession)

\* Some(StateShared { config: config_clone, api, session })
InstalledRecord(p) == StateShared(config[p], session[p])

\* *self.shared.write() = Some(...): the previous value of the slot, if any,
\* is dropped by the assignment; then Ok(()) is returned.
Install(p) ==
    /\ pc[p] = "install_cs"
    /\ wlock = p
    /\ shared' = InstalledRecord(p)
    /\ sessions' = IF shared = None THEN sessions
                   ELSE [sessions EXCEPT ![shared.session].dropped = TRUE]
    /\ wlock' = NoHolder
    /\ lastWrite' = [ kind |-> "install", rec |-> InstalledRecord(p),
                      since |-> lastWrite.since \cup { InstalledRecord(p) } ]
    /\ pc' = [pc EXCEPT ![p] = "idle"]
    /\ result' = [result EXCEPT ![p] = "Ok"]
    /\ UNCHANGED << config, existing, session, calls, overlapped, later, cmd, logVars >>

\* the steps of a configure call after its invocation
Step(p) ==
    \/ LockTake(p)
    \/ TakeSlot(p)
    \/ StopRequest(p)
    \/ StopComplete(p)
    \/ ConstructOk(p)
    \/ ConstructFail(p)
    \/ StartHttpApi(p)
    \/ LockInstall(p)
    \/ Install(p)

Configure(p) ==
    \/ \E c \in Configs : config_change(p, c)
    \/ LockTake(p)
    \/ TakeSlot(p)
    \/ StopRequest(p)
    \/ StopComplete(p)
    \/ ConstructOk(p)
    \/ ConstructFail(p)
    \/ StartHttpApi(p)
    \/ LockInstall(p)
    \/ Install(p)

\* ------------------------------------------------------------- base64
\* A String is a sequence of one-character strings.
\* The alphabet of base64::engine::general_purpose::STANDARD.
STANDARD ==
    << "A","B","C","D","E","F","G","H","I","J","K","L","M","N","O","P",
       "Q","R","S","T","U","V","W","X","Y","Z","a","b","c","d","e","f",
       "g","h","i","j","k","l","m","n","o","p","q","r","s","t","u","v",
       "w","x","y","z","0","1","2","3","4","5","6","7","8","9","+","/" >>

PAD == "="

IsSymbol(ch) == \E i \in 1 .. Len(STANDARD) : STANDARD[i] = ch

\* the 6-bit value of a symbol of the alphabet
SymbolValue(ch) == (CHOOSE i \in 1 .. Len(STANDARD) : STANDARD[i] = ch) - 1

\* number of '=' at the end of the input
RECURSIVE TrailingPad(_)
TrailingPad(str) ==
    IF str = << >> \/ str[Len(str)] # PAD THEN 0
    ELSE 1 + TrailingPad(SubSeq(str, 1, Len(str) - 1))

DecodeOk_lenient(str) ==
    /\ Len(str) % 4 # 1
    /\ \A i \in 1 .. Len(str) - TrailingPad(str) : IsSymbol(str[i])

\* STANDARD.decode(&contents) is Ok: canonical padding is required, every
\* other byte is a symbol of the alphabet, and the bits of the last symbol
\* that do not belong to a byte are zero.
DecodeOk(str) ==
    LET pad == TrailingPad(str)
        n   == Len(str) - pad
    IN  /\ Len(str) % 4 = 0
        /\ pad <= 2
        /\ \A i \in 1 .. n : IsSymbol(str[i])
        /\ pad = 1 => SymbolValue(str[n]) % 4 = 0
        /\ pad = 2 => SymbolValue(str[n]) % 16 = 0

\* `contents` values the front end sends to torrent_create_from_base64_file
Contents ==
    { << >>,
      << "Q", "Q", "=", "=" >>,
      << "Q", "U", "I", "=" >>,
      << "Q", "U", "J", "D" >>,
      << "Q", "Q", "=" >>,
      << "Q", "!", "=", "=" >>,
      << "Q", "R", "=", "=" >>,
      << "Q", "=", "=", "=" >> }

\* ----------------------------------------------------------- the commands
\* commands that call state.api() and then one method of the Api
ApiOps == { "torrents_list", "torrent_details", "torrent_stats",
            "torrent_create_from_url", "torrent_create_from_base64_file",
            "torrent_action_pause", "torrent_action_start",
            "torrent_action_delete", "torrent_action_forget" }

\* commands that take a torrent id
IdOps == { "torrent_details", "torrent_stats", "torrent_action_pause",
           "torrent_action_start", "torrent_action_delete",
           "torrent_action_forget" }

AddOps == { "torrent_create_from_url", "torrent_create_from_base64_file" }

\* commands that never touch the state
PureOps == { "get_version", "config_default" }

Ops == ApiOps \cup PureOps \cup { "config_current" }

\* the torrent ids the front end asks about: the first torrent and an id
\* no torrent has
TorrentIds == { 0, MaxJobs }

\* the arguments a command can be invoked with
Args(op) ==
    IF op \in IdOps THEN TorrentIds
    ELSE IF op = "torrent_create_from_base64_file" THEN Contents
    ELSE { << >> }

Returned_cached(c, r) ==
    [ cmd[c] EXCEPT !.pc = "idle", !.arg = << >>, !.res = r ]

\* the command returns r: its arguments and its Api clone are dropped, the front end keeps
\* the name of the command and what it returned
Returned(c, r) ==
    [ cmd[c] EXCEPT !.pc = "idle", !.arg = << >>, !.handle = NoSession,
                    !.res = r ]

\* A command is invoked by the front end.  get_version and config_default
\* return at once; torrent_create_from_base64_file starts with the decoding
\* of its contents; every other command starts with a read of the slot.
Invoke(c, op, arg) ==
    /\ cmd[c].pc = "idle"
    /\ cmd' = [cmd EXCEPT ![c] =
                 [ op |-> op, handle |-> NoSession, got |-> None,
                   arg |-> IF op \in PureOps THEN << >> ELSE arg,
                   pc |-> IF op \in PureOps THEN "idle"
                          ELSE IF op = "torrent_create_from_base64_file"
                          THEN "decode" ELSE "read",
                   res |-> IF op = "get_version" THEN "CARGO_PKG_VERSION"
                           ELSE IF op = "config_default" THEN "default"
                           ELSE "pending" ] ]
    /\ UNCHANGED << shared, wlock, sessions, lastWrite >>
    /\ UNCHANGED << cfgVars, logVars >>

RejectedBeforeApi_never(str) == FALSE

\* torrent_create_from_base64_file decodes `contents` before it asks for
\* the api: an Err of decode is mapped to BAD_REQUEST and returned by `?`.
RejectedBeforeApi(str) == ~DecodeOk(str)

\* STANDARD.decode(&contents).context(..).map_err(..)?
Decode(c) ==
    /\ cmd[c].pc = "decode"
    /\ cmd' = [cmd EXCEPT ![c] =
                 IF RejectedBeforeApi(cmd[c].arg)
                 THEN Returned(c, "BAD_REQUEST")
                 ELSE [ @ EXCEPT !.pc = "read" ] ]
    /\ UNCHANGED << shared, wlock, sessions, lastWrite >>
    /\ UNCHANGED << cfgVars, logVars >>

ReadLeaves_take(slot) == None

\* what a shared read of the slot leaves in the slot
ReadLeaves(slot) == slot

\* State::api(): self.shared.read(), then Some(s) => Ok(s.api.clone()),
\* None => Err(ERR_NOT_CONFIGURED); `?` in the command returns the error.
api(c) ==
    /\ cmd[c].pc = "read"
    /\ cmd[c].op \in ApiOps
    /\ wlock = NoHolder
    /\ cmd' = [cmd EXCEPT ![c] =
                 IF shared = None THEN Returned(c, "NOT_CONFIGURED")
                 ELSE [ @ EXCEPT !.pc = "call", !.handle = shared.session ] ]
    /\ shared' = ReadLeaves(shared)
    /\ UNCHANGED << wlock, sessions, lastWrite >>
    /\ UNCHANGED << cfgVars, logVars >>

ConfigOf_default(slot) == None

\* the Option<RqbitDesktopConfig> current_config returns for a slot value
ConfigOf(slot) == IF slot = None THEN None ELSE slot.config

\* State::current_config(): self.shared.read().as_ref().map(|s| s.config.clone())
current_config(c) ==
    /\ cmd[c].pc = "read"
    /\ cmd[c].op = "config_current"
    /\ wlock = NoHolder
    /\ cmd' = [cmd EXCEPT ![c] =
                 [ Returned(c, "Ok") EXCEPT !.got = ConfigOf(shared) ] ]
    /\ shared' = ReadLeaves(shared)
    /\ UNCHANGED << wlock, sessions, lastWrite >>
    /\ UNCHANGED << cfgVars, logVars >>

\* --- the Api of librqbit, by its effect on the torrents of the session ---
RECURSIVE Added(_)
Added(S) ==
    IF S = {} THEN 0
    ELSE LET s == CHOOSE t \in S : TRUE
         IN  Len(sessions[s].jobs) + Added(S \ {s})

Exists(jobs, id) == id < Len(jobs) /\ jobs[id + 1] # "gone"

\* the torrents after an Api method with a torrent id, and its outcome
ApiById(op, jobs, id) ==
    IF ~Exists(jobs, id) THEN [ jobs |-> jobs, res |-> "NOT_FOUND" ]
    ELSE IF op = "torrent_action_pause" THEN
        IF jobs[id + 1] = "live"
        THEN [ jobs |-> [jobs EXCEPT ![id + 1] = "paused"], res |-> "Ok" ]
        ELSE [ jobs |-> jobs, res |-> "ApiError" ]
    ELSE IF op = "torrent_action_start" THEN
        IF jobs[id + 1] = "paused"
        THEN [ jobs |-> [jobs EXCEPT ![id + 1] = "live"], res |-> "Ok" ]
        ELSE [ jobs |-> jobs, res |-> "ApiError" ]
    ELSE IF op \in { "torrent_action_delete", "torrent_action_forget" } THEN
        [ jobs |-> [jobs EXCEPT ![id + 1] = "gone"], res |-> "Ok" ]
    ELSE [ jobs |-> jobs, res |-> "Ok" ]

\* the command calls its Api method on the handle it cloned and returns the
\* method's result as it is.  api_add_torrent may add the torrent or fail.
Delegate(c, added) ==
    /\ cmd[c].pc = "call"
    /\ LET s    == cmd[c].handle
           op   == cmd[c].op
           jobs == sessions[s].jobs
       IN  IF op \in AddOps THEN
               IF added /\ Added(SessionIds) < MaxJobs
               THEN /\ sessions' = [sessions EXCEPT ![s].jobs = Append(jobs, "live")]
                    /\ cmd' = [cmd EXCEPT ![c] = Returned(c, "Added")]
               ELSE /\ sessions' = sessions
                    /\ cmd' = [cmd EXCEPT ![c] = Returned(c, "ApiError")]
           ELSE IF op \in IdOps THEN
               /\ sessions' = [sessions EXCEPT ![s].jobs = ApiById(op, jobs, cmd[c].arg).jobs]
               /\ cmd' = [cmd EXCEPT ![c] = Returned(c, ApiById(op, jobs, cmd[c].arg).res)]
           ELSE
               /\ sessions' = sessions
               /\ cmd' = [cmd EXCEPT ![c] = Returned(c, "Ok")]
    /\ UNCHANGED << shared, wlock, lastWrite >>
    /\ UNCHANGED << cfgVars, logVars >>

\* the two reads of the slot, as the front end issues them while it
\* reconfigures: config_current and torrents_list
ReadOps == { "config_current", "torrents_list" }

Reader(c) ==
    \/ \E op \in ReadOps : Invoke(c, op, << >>)
    \/ api(c)
    \/ current_config(c)
    \/ Delegate(c, TRUE)

Command(c) ==
    \/ \E op \in Ops : \E arg \in Args(op) : Invoke(c, op, arg)
    \/ Decode(c)
    \/ api(c)
    \/ current_config(c)
    \/ \E added \in BOOLEAN : Delegate(c, added)

\* ---------------------------------------------------- reload channel
\* unbounded_channel: send appends at the back, whatever the length
Enqueue_front(q, str) == << str >> \o q
Enqueue(q, str) == Append(q, str)

\* The http api of session s, built with Some(rust_log_reload_tx.clone()),
\* sends str on the channel; send returns at once.
SendRustLog(s, str) ==
    /\ s \in Constructed
    /\ sessions[s].http
    /\ sessions[s].state # "stopped"
    /\ Len(sent) < MaxSends
    /\ reload_rx' = Enqueue(reload_rx, str)
    /\ sent' = Append(sent, str)
    /\ UNCHANGED << shared, wlock, sessions, lastWrite, cmd, cfgVars,
                    filter, reloader >>

\* the loop goes on after a string that does not parse: continue
AfterParseError_exit == "exited"
AfterParseError == "running"

\* One turn of the fmt_filter_reloader loop: reload_rx.recv() yields the
\* oldest string; it is parsed and, when it parses, reloaded as the filter.
RustLogReload ==
    /\ reloader = "running"
    /\ reload_rx # << >>
    /\ LET rust_log == Head(reload_rx)
           parsed == Parse(rust_log)
       IN  /\ filter' = IF parsed.ok THEN parsed.filter ELSE filter
           /\ reloader' = IF parsed.ok THEN "running" ELSE AfterParseError
    /\ reload_rx' = Tail(reload_rx)
    /\ UNCHANGED << shared, wlock, sessions, lastWrite, cmd, cfgVars, sent >>

\* concurrent config_change calls, with reads of the slot in between
Next ==
    \/ \E p \in Procs : Configure(p)
    \/ \E c \in Cmds : Reader(c)

\* every command of the invoke_handler, with config_change calls one after
\* the other
NextCmd ==
    \/ Configure("p1")
    \/ \E c \in Cmds : Command(c)

\* concurrent config_change calls only, one call more than in Next
NextCalls ==
    \/ \E p \in Procs : \E c \in Configs : config_change_more(p, c)
    \/ \E p \in Procs : Step(p)

\* concurrent config_change calls only
NextConfigure == \E p \in Procs : Configure(p)

Spec == Init /\ [][Next]_vars

SpecCalls == Init /\ [][NextCalls]_vars

\* the runtime keeps polling every configure future: a call that can take
\* its next step (the guard is free, stop() or new_with_opts() returns)
\* eventually takes it
SpecFair ==
    /\ Init /\ [][NextConfigure]_vars
    /\ \A p \in Procs : WF_vars(Step(p))

SpecCmd == Init /\ [][NextCmd]_vars

\* config_change calls one after the other, the http apis they start
\* sending RUST_LOG strings, and the reloader task
NextLog ==
    \/ \E c \in Configs : config_change_log("p1", c)
    \/ Step("p1")
    \/ \E s \in SessionIds : \E str \in RustLogs : SendRustLog(s, str)
    \/ RustLogReload

SpecLog == Init /\ [][NextLog]_vars

\* the runtime keeps polling the reloader task: recv() on a non-empty
\* channel returns
SpecLogFair == SpecLog /\ WF_vars(RustLogReload)

\* ------------------------------------------------------------ vocabulary
\* the task's last configure call has returned Ok / Err
ReturnedOk(p) == pc[p] = "idle" /\ result[p] = "Ok"
ReturnedErr(p) == pc[p] = "idle" /\ result[p] = "Err"

\* the (config, session) pair the task's last call installed
PairOf(p) == StateShared(config[p], session[p])

\* no other call was in flight during the task's last call, and none was
\* invoked after it returned
Alone(p) == ~overlapped[p] /\ ~later[p]

Stopped(s) == sessions[s].state = "stopped" /\ sessions[s].stops >= 1

\* the await points of configure and the spawn of the http api
Suspended == { "stop", "stopwait", "construct", "http" }

\* ------------------------------------------------------------------- C1
\* C1: a populated slot holds a Configuration and a session produced by the
\* same configure call (the stored Configuration is the one the stored
\* session was constructed from), and once two overlapping calls have both
\* returned Ok, with no call after them, the slot holds exactly the pair of
\* one of them.
C1_PairFromOneCall ==
    /\ shared # None =>
          /\ shared.session \in Constructed
          /\ sessions[shared.session].config = shared.config
    /\ \A p \in Procs : \A q \in Procs \ {p} :
          ( /\ ReturnedOk(p) /\ ReturnedOk(q)
            /\ overlapped[p] /\ overlapped[q]
            /\ ~later[p] /\ ~later[q] )
          => shared \in { PairOf(p), PairOf(q) }

\* two overlapping calls with different configurations have both returned Ok
C1_Witness ==
    /\ ReturnedOk("p1") /\ ReturnedOk("p2")
    /\ overlapped["p1"] /\ overlapped["p2"]
    /\ ~later["p1"] /\ ~later["p2"]
    /\ config["p1"] # config["p2"]
    /\ shared = PairOf("p1")

\* ------------------------------------------------------------------- C2
\* C2: a record is only ever discarded after its session has fully stopped,
\* and once no configure call is in flight every session a configure call
\* constructed, other than the one held in the slot, has been stopped.
C2_EverySessionStopped ==
    /\ \A s \in Constructed : sessions[s].dropped => Stopped(s)
    /\ (\A p \in Procs : pc[p] = "idle") =>
          \A s \in Constructed :
             (shared = None \/ shared.session # s) => Stopped(s)

\* ------------------------------------------------------------------- C3
\* C3: a configure call that fails in session construction returns the
\* error having installed nothing; the session it took from the slot, if
\* any, has been asked to stop and has stopped; and when no other call
\* overlapped it or followed it the slot is empty, so that current_config
\* returns nothing and api returns NOT_CONFIGURED.
C3_FailureInstallsNothing ==
    /\ [](\A p \in Procs : ReturnedErr(p) =>
            /\ session[p] = NoSession
            /\ existing[p] # None => Stopped(existing[p].session)
            /\ Alone(p) => shared = None)
    /\ [][\A c \in Cmds :
            ( /\ \E p \in Procs : ReturnedErr(p) /\ Alone(p)
              /\ cmd[c].pc = "read"
              /\ cmd'[c].pc # "read" )
            => /\ cmd'[c].pc = "idle"
               /\ cmd[c].op = "config_current" => cmd'[c].got = None
               /\ cmd[c].op \in ApiOps => cmd'[c].res = "NOT_CONFIGURED"]_vars

\* a call that took a session from the slot failed, and a read followed it
C3_Witness ==
    /\ ReturnedErr("p1") /\ Alone("p1")
    /\ existing["p1"] # None
    /\ cmd["c1"].op = "torrents_list" /\ cmd["c1"].res = "NOT_CONFIGURED"

\* ------------------------------------------------------------------- C4
\* a command returns in this step without having obtained an Api handle
ReturnsWithoutHandle(c) ==
    /\ cmd[c].pc \in { "decode", "read" }
    /\ cmd[c].op \in ApiOps
    /\ cmd'[c].pc = "idle"

\* C4 as stated: every command that needs a session, for every input,
\* returns NOT_CONFIGURED when the slot is empty, and changes neither the
\* slot nor any session.
C4_AlwaysNotConfigured ==
    [][\A c \in Cmds :
         (ReturnsWithoutHandle(c) /\ shared = None)
         => /\ cmd'[c].res = "NOT_CONFIGURED"
            /\ UNCHANGED << shared, sessions >>]_vars

\* C4 as amended: the same, except that torrent_create_from_base64_file
\* with contents that are not valid base64 returns BAD_REQUEST instead.
C4_NotConfiguredUnlessBadBase64 ==
    [][\A c \in Cmds :
         (ReturnsWithoutHandle(c) /\ shared = None)
         => /\ cmd'[c].res =
                 IF /\ cmd[c].op = "torrent_create_from_base64_file"
                    /\ ~DecodeOk(cmd[c].arg)
                 THEN "BAD_REQUEST" ELSE "NOT_CONFIGURED"
            /\ UNCHANGED << shared, sessions >>]_vars

\* torrent_create_from_base64_file with valid contents met an empty slot
C4_Witness ==
    /\ shared = None
    /\ cmd["c1"].op = "torrent_create_from_base64_file"
    /\ cmd["c1"].pc = "idle" /\ cmd["c1"].res = "NOT_CONFIGURED"

\* ------------------------------------------------------------------- C5
\* C5 as stated: after configure(C) returned Ok, with no configure call
\* invoked after the return, the slot holds C; and every record installed
\* since the last take-and-clear is what a read of the slot returns.
C5_RoundTripUntilNextTake ==
    /\ \A p \in Procs : (ReturnedOk(p) /\ ~later[p]) => ConfigOf(shared) = config[p]
    /\ \A r \in lastWrite.since : shared = r

\* C5 as amended: after configure(C) returned Ok, with no other configure
\* call in flight during it and none invoked after it, the slot holds the
\* pair of that call; and a read that follows an install, with no write of
\* the slot in between, returns the installed record.
C5_RoundTripUntilNextWrite ==
    /\ [](\A p \in Procs : (ReturnedOk(p) /\ Alone(p)) => shared = PairOf(p))
    /\ [][\A c \in Cmds :
            (lastWrite.kind = "install" /\ cmd[c].pc = "read" /\ cmd'[c].pc # "read")
            => /\ cmd[c].op = "config_current" =>
                    cmd'[c].got = lastWrite.rec.config /\ cmd'[c].res = "Ok"
               /\ cmd[c].op \in ApiOps =>
                    cmd'[c].handle = lastWrite.rec.session]_vars

\* configure(B) returned Ok on its own and config_current returned B
C5_Witness ==
    /\ ReturnedOk("p1") /\ Alone("p1")
    /\ calls = 1
    /\ config["p1"].id = "B"
    /\ cmd["c1"].op = "config_current" /\ cmd["c1"].pc = "idle"
    /\ cmd["c1"].got = config["p1"]

\* ------------------------------------------------------------------- C6
\* a complete Active Session Record
Complete(rec) ==
    /\ DOMAIN rec = { "config", "session" }
    /\ rec.config \in Configs
    /\ rec.session \in Constructed

\* C6: the slot holds nothing or one complete (config, session) record, a
\* write of the slot replaces it in one step by nothing or by one complete
\* record, and a reader gets nothing or a component of a complete record.
C6_OneCompleteRecord ==
    /\ [](shared = None \/ Complete(shared))
    /\ [](\A c \in Cmds :
            /\ cmd[c].got = None \/ cmd[c].got \in Configs
            /\ cmd[c].handle = NoSession \/ cmd[c].handle \in Constructed)
    /\ [][shared' # shared =>
            \/ shared # None /\ shared' = None
            \/ Complete(shared')]_vars

\* a reader holds the handle of the installed record while the next
\* configure call has taken the record out of the slot
C6_Witness ==
    /\ shared = None
    /\ cmd["c1"].pc = "call"
    /\ \E p \in Procs : existing[p] # None /\ existing[p].session = cmd["c1"].handle

\* ------------------------------------------------------------------- C7
\* C7 as stated: the session in the slot has never been asked to stop, and
\* while a configure call waits for the old session to stop the slot is
\* empty.
C7_EmptyWhileStopping ==
    /\ shared # None =>
          /\ sessions[shared.session].stops = 0
          /\ sessions[shared.session].state = "running"
    /\ \A p \in Procs : pc[p] = "stopwait" => shared = None

\* C7 as amended: the session in the slot has never been asked to stop, and
\* while a configure call waits for the old session to stop the slot is
\* empty or holds a running session other than the one being stopped.
C7_NeverStoppingInSlot ==
    /\ shared # None =>
          /\ sessions[shared.session].stops = 0
          /\ sessions[shared.session].state = "running"
    /\ \A p \in Procs : pc[p] = "stopwait" =>
          \/ shared = None
          \/ /\ shared.session # existing[p].session
             /\ sessions[existing[p].session].state = "stopping"

\* during the shutdown wait of one call a reader holds the handle of the
\* running session another call installed
C7_Witness ==
    /\ pc["p1"] = "stopwait"
    /\ shared # None
    /\ cmd["c1"].pc = "call"
    /\ cmd["c1"].handle = shared.session

\* ------------------------------------------------------------------- C8
\* C8: a configure call that is suspended at an await point, or is starting
\* the http api, does not hold the write guard; the guard is held only in
\* the take and install statements; and a read issued while the calls in
\* flight are suspended can take the read lock at once.
C8_NoGuardAcrossAwait ==
    /\ \A p \in Procs : pc[p] \in Suspended => wlock # p
    /\ wlock # NoHolder => pc[wlock] \in { "take_cs", "install_cs" }
    /\ \A c \in Cmds :
          ( /\ cmd[c].pc = "read"
            /\ \A p \in Procs : pc[p] \in Suspended \cup { "idle" } )
          => ENABLED (api(c) \/ current_config(c))

\* a read is pending while one call waits for a stop and the other
\* constructs its session
C8_Witness ==
    /\ pc["p1"] = "stopwait"
    /\ pc["p2"] = "construct"
    /\ cmd["c1"].pc = "read"

\* ------------------------------------------------------------------- C9
\* the contents of Contents that STANDARD does not accept
NotBase64 ==
    { << "Q", "Q", "=" >>,
      << "Q", "!", "=", "=" >>,
      << "Q", "R", "=", "=" >>,
      << "Q", "=", "=", "=" >> }

BadContents(c) ==
    cmd[c].op = "torrent_create_from_base64_file" /\ cmd[c].arg \in NotBase64

\* C9: torrent_create_from_base64_file with contents that are not valid
\* base64 never gets past the decoding: it never obtains an Api handle or
\* calls api_add_torrent, and what follows the decoding, in every state, is
\* the return of BAD_REQUEST with the slot and every session unchanged.
C9_BadBase64Rejected ==
    /\ [](\A c \in Cmds : BadContents(c) =>
            /\ cmd[c].pc = "decode"
            /\ cmd[c].handle = NoSession)
    /\ [][\A c \in Cmds :
            (BadContents(c) /\ cmd'[c] # cmd[c])
            => /\ cmd'[c].pc = "idle"
               /\ cmd'[c].res = "BAD_REQUEST"
               /\ UNCHANGED << shared, sessions >>]_vars

\* contents were rejected while a session with a torrent is configured
C9_Witness ==
    /\ shared # None
    /\ sessions[shared.session].jobs = << "live" >>
    /\ cmd["c1"].op = "torrent_create_from_base64_file"
    /\ cmd["c1"].pc = "idle"
    /\ cmd["c1"].res = "BAD_REQUEST"

\* ------------------------------------------------------------------ C10
\* C10: a step of any command other than config_change (a step that moves a
\* command task) leaves the slot as it was, whatever the command returns.
C10_OnlyConfigureWritesSlot ==
    [][(\E c \in Cmds : cmd'[c] # cmd[c]) => shared' = shared]_vars

\* a command that changed a session returned while the slot is populated
C10_Witness ==
    /\ shared # None
    /\ cmd["c1"].op = "torrent_action_pause"
    /\ cmd["c1"].pc = "idle" /\ cmd["c1"].res = "Ok"
    /\ sessions[shared.session].jobs = << "paused" >>

\* ------------------------------------------------------------------ C11
\* the string of RustLogs that no filter can be built from: its second
\* directive names no level
Unparseable == { << "info", ",", "tokio", "=", "loud" >> }

\* a turn of the reloader loop: a string leaves the channel
Received == Len(reload_rx') < Len(reload_rx)

\* C11: before any configuration the filter in effect is the one of "info";
\* the reloader task is always running and can take the next string from a
\* non-empty channel; a turn of its loop on a string that does not parse
\* leaves the filter in effect unchanged, a turn on a string that parses
\* makes the parsed filter the one in effect; no turn changes what a
\* configure call or a command returns, nor the sessions and the slot.
C11_ParseFailureKeepsFilter ==
    /\ [](calls = 0 => filter = { [ target |-> "", level |-> "info" ] })
    /\ [](reloader = "running")
    /\ [](reload_rx # << >> => ENABLED RustLogReload)
    /\ [][Received =>
            /\ UNCHANGED << cmd, result, pc, sessions, shared, sent >>
            /\ IF Head(reload_rx) \in Unparseable
                 THEN filter' = filter
                 ELSE filter' = Parse(Head(reload_rx)).filter]_vars

\* "debug" was sent and then a string that does not parse; both have been
\* received, and the filter of "debug" is still in effect
C11_Witness ==
    /\ Len(sent) = 2
    /\ sent[1] = << "debug" >>
    /\ sent[2] \in Unparseable
    /\ reload_rx = << >>
    /\ reloader = "running"
    /\ filter = { [ target |-> "", level |-> "debug" ] }

TakesDuringStopWait(q) ==
    /\ pc[q] = "take_cs"
    /\ pc'[q] # "take_cs"
    /\ \E p \in Procs \ {q} : pc[p] = "stopwait"

\* C13 as stated: the take of a configure call that runs while an earlier
\* call waits for the old session to stop finds the slot empty, and the
\* call goes on to construct its session without waiting for any stop.
C13_SecondFindsSlotEmpty ==
    [][\A q \in Procs :
         TakesDuringStopWait(q)
         => /\ shared = None
            /\ existing'[q] = None
            /\ pc'[q] = "construct"]_vars

\* C13 as amended: that take finds the slot empty unless a configure call
\* has installed a record since the slot was last taken; when it finds the
\* slot empty the call goes on to construct its session without waiting for
\* any stop, and otherwise it stops the record it found, which is not the
\* one the earlier call is waiting for.
C13_SecondSkipsWaitIfEmpty ==
    [][\A q \in Procs :
         TakesDuringStopWait(q)
         => /\ lastWrite.kind # "install" => shared = None
            /\ shared = None =>
                  existing'[q] = None /\ pc'[q] = "construct"
            /\ shared # None =>
                  /\ existing'[q] = shared /\ pc'[q] = "stop"
                  /\ \A p \in Procs \ {q} : pc[p] = "stopwait" =>
                        existing[p].session # shared.session]_vars

\* the second call has constructed its session while the first call still
\* waits for the old session to stop
C13_Witness ==
    /\ pc["p1"] = "stopwait"
    /\ sessions[existing["p1"].session].state = "stopping"
    /\ pc["p2"] = "http"
    /\ existing["p2"] = None
    /\ sessions[session["p2"]].state = "running"

\* ------------------------------------------------------------------ C14
\* C14 as stated: at no instant does a command hold an Api handle of a
\* session that a configure call has taken out of the slot.
C14_NoHandleAcrossTake ==
    \A c \in Cmds :
       cmd[c].handle # NoSession =>
          shared # None /\ shared.session = cmd[c].handle

\* C14 as amended: a command holds an Api handle only from its own call of
\* state.api() until it returns, the handle is the one of the record that
\* was in the slot at that call, and it is kept, also across a take of that
\* record by configure, until the command returns.
C14_HandleOnlyWithinOneCall ==
    /\ [](\A c \in Cmds :
            /\ cmd[c].pc # "call" => cmd[c].handle = NoSession
            /\ cmd[c].pc = "call" => cmd[c].handle \in Constructed)
    /\ [][\A c \in Cmds :
            /\ (cmd[c].pc = "read" /\ cmd'[c].pc = "call")
                  => shared # None /\ cmd'[c].handle = shared.session
            /\ (cmd[c].pc = "call" /\ cmd'[c].pc = "call")
                  => cmd'[c].handle = cmd[c].handle]_vars

\* torrent_create_from_url awaits api_add_torrent on its clone while
\* configure waits for that session to stop
C14_Witness ==
    /\ cmd["c1"].op = "torrent_create_from_url"
    /\ cmd["c1"].pc = "call"
    /\ shared = None
    /\ pc["p1"] = "stopwait"
    /\ existing["p1"].session = cmd["c1"].handle

\* ------------------------------------------------------------------ C15
\* C15: a record is taken out of the slot by at most one configure call, so
\* no session is asked to stop more than once; and when a configure call
\* that no other call overlapped returns Ok after it took a session from
\* the slot, that session has been stopped exactly once.
C15_StoppedAtMostOnce ==
    /\ \A s \in SessionIds : sessions[s].stops <= 1
    /\ \A p \in Procs : \A q \in Procs \ {p} :
          (existing[p] # None /\ existing[q] # None)
          => existing[p].session # existing[q].session
    /\ \A p \in Procs :
          (ReturnedOk(p) /\ ~overlapped[p] /\ existing[p] # None)
          => /\ sessions[existing[p].session].stops = 1
             /\ sessions[existing[p].session].state = "stopped"

\* configure(cfg1) and then configure(cfg2) have returned Ok, one after the
\* other
C15_Witness ==
    /\ calls = 2
    /\ ReturnedOk("p1") /\ Alone("p1")
    /\ existing["p1"] # None
    /\ sessions[existing["p1"].session].stops = 1
    /\ shared = PairOf("p1")

\* ------------------------------------------------------------------ C16
\* C16: within one configure call the new session is constructed only after
\* the session the call took from the slot has fully stopped, the http api
\* is started (when enabled) only on a constructed session, and the record
\* is installed only after both: take, stop, construct, http api, install
\* follow each other in this order.
C16_StepsInOrder ==
    \A p \in Procs :
       /\ pc[p] \in { "take", "take_cs", "stop", "stopwait", "construct" }
             => session[p] = NoSession
       /\ (pc[p] \in { "construct", "http", "install", "install_cs" } \/ ReturnedOk(p))
             => existing[p] = None \/ Stopped(existing[p].session)
       /\ (pc[p] \in { "http", "install", "install_cs" } \/ ReturnedOk(p))
             => session[p] \in Constructed
       /\ pc[p] = "http" => ~sessions[session[p]].http
       /\ pc[p] \in { "install", "install_cs" }
             => sessions[session[p]].http = ~config[p].http_api_disable
       /\ InFlight(p) => shared = None \/ shared.session # session[p]

\* a call that took a session from the slot has gone through every step
C16_Witness ==
    /\ ReturnedOk("p1")
    /\ existing["p1"] # None
    /\ sessions[session["p1"]].http
    /\ shared = PairOf("p1")

\* ------------------------------------------------------------------ C17
\* sessions that were constructed and have not fully stopped
Live == { s \in Constructed : sessions[s].state # "stopped" }

\* C17: at any instant at most one session is live, that is constructed by
\* a configure call and not yet fully stopped.
C17_OneLiveSession == Cardinality(Live) <= 1

\* ------------------------------------------------------------------ C18
\* C18: the http api runs on a session exactly when the session was
\* constructed from a configuration that enables it; it is started on the
\* session of the call before the call installs that session; a call whose
\* construction failed has no session to start it on.
C18_HttpApiIffEnabled ==
    /\ \A s \in Constructed :
          sessions[s].http => ~sessions[s].config.http_api_disable
    /\ shared # None =>
          sessions[shared.session].http = ~shared.config.http_api_disable
    /\ \A p \in Procs :
          /\ (pc[p] \in { "install", "install_cs" } \/ ReturnedOk(p))
                => sessions[session[p]].http = ~config[p].http_api_disable
          /\ ReturnedErr(p) => session[p] = NoSession
          /\ pc[p] \in { "take", "take_cs", "stop", "stopwait", "construct" }
                => session[p] = NoSession

\* a session with the http api is installed, a session without it was
\* installed before, and a call has failed
C18_Witness ==
    /\ shared # None /\ sessions[shared.session].http
    /\ \E s \in Constructed :
          sessions[s].config.http_api_disable /\ sessions[s].dropped
    /\ \E p \in Procs : ReturnedErr(p)

\* ------------------------------------------------------------------ C19
\* the strings the reloader has received so far
Processed == SubSeq(sent, 1, Len(sent) - Len(reload_rx))

\* the filter of the last string of strs that parses, or the one of "info"
RECURSIVE LastParsing(_)
LastParsing(strs) ==
    IF strs = << >> THEN { [ target |-> "", level |-> "info" ] }
    ELSE LET last == strs[Len(strs)]
         IN  IF last \in Unparseable
               THEN LastParsing(SubSeq(strs, 1, Len(strs) - 1))
               ELSE Parse(last).filter

\* a session whose http api task is alive
HasHttpApi(s) ==
    s \in Constructed /\ sessions[s].http /\ sessions[s].state # "stopped"

\* C19: a live http api can send any string at once, whatever the channel
\* holds and whatever configure and the reloader are doing; the channel holds
\* the strings sent and not yet received, in the order they were sent; the
\* filter in effect is the one of the last received string that parses, or
\* the one of "info" if none parsed, so that is the filter once the channel
\* is drained; and the n-th string sent is eventually received.
C19_AppliedInOrderEventually ==
    /\ [](\A s \in SessionIds : \A str \in RustLogs :
             (HasHttpApi(s) /\ Len(sent) < MaxSends)
                => ENABLED SendRustLog(s, str))
    /\ [](reload_rx = SubSeq(sent, Len(sent) - Len(reload_rx) + 1, Len(sent)))
    /\ [](filter = LastParsing(Processed))
    /\ \A n \in 1 .. MaxSends :
          (Len(sent) >= n) ~> (Len(sent) - Len(reload_rx) >= n)

\* a string that does not parse was sent and then one with two directives;
\* both have been received and the filter of the second is in effect
C19_Witness ==
    /\ Len(sent) = 2
    /\ sent[1] \in Unparseable
    /\ sent[2] = << "librqbit", "=", "trace", ",", "warn" >>
    /\ reload_rx = << >>
    /\ filter = { [ target |-> "librqbit", level |-> "trace" ],
                  [ target |-> "", level |-> "warn" ] }

====
